---- MODULE Spec2Model ----
(***************************************************************************)
(* Model of streamlit_app.py, the page controller of the Medical Report    *)
(* Analyzer.  Streamlit re-executes the script on every user interaction;  *)
(* one action of the model is one such run of one page function.  The      *)
(* state is st.session_state, the upload directory, the report store and   *)
(* a log of the calls the run made to its collaborators.                   *)
(***************************************************************************)
EXTENDS Integers, Sequences, FiniteSets, TLC

VARIABLES current_file, analysis_results, df, selected_report,
          uploads, reports, quick_summaries, page, callLog, message

vars == <<current_file, analysis_results, df, selected_report,
          uploads, reports, quick_summaries, page, callLog, message>>

session == <<current_file, analysis_results, df, selected_report>>

store == <<reports, quick_summaries>>

(* ------------------------------ bounds --------------------------------- *)

\* The report store holds at most this many Report Records in the model.
MaxReports == 2

(* ----------------------------- constants ------------------------------- *)

None == [none |-> TRUE]

\* get_recent_reports(10)
RecentLimit == 10

save_dir == "uploads"

Pages == {"Upload & Analyze", "Report Generation", "Quick Summary", "Report History"}

AnalysisTypes == {"Basic Analysis", "Detailed Analysis with Predictions"}

ReportFormats == {"Standard", "Detailed"}

(* ------------------------- uploaded files ------------------------------ *)

FileNames == {"a.csv", "b.csv"}

\* File contents: a sequence of lines, each line a sequence of fields.
CsvOne == << <<"age", "bp">>, <<"40", "120">> >>

CsvShortRow == << <<"age", "bp">>, <<"51">> >>

CsvLongRow == << <<"age">>, <<"40">>, <<"41", "130">> >>

\* What st.file_uploader hands to the script: two well-formed files, and a
\* malformed one that carries the name of the first.
UploadedFiles ==
    { [name |-> "a.csv", type |-> "text/csv", bytes |-> CsvOne],
      [name |-> "b.csv", type |-> "text/csv", bytes |-> CsvShortRow],
      [name |-> "a.csv", type |-> "text/csv", bytes |-> CsvLongRow] }

(* --------------------------- pd.read_csv ------------------------------- *)

\* read_csv raises on an empty stream and on a line with more fields than
\* the header.
ParseFails(bytes) ==
    \/ Len(bytes) = 0
    \/ \E i \in 2..Len(bytes) : Len(bytes[i]) > Len(bytes[1])

\* A short line is padded with missing values.
PadRow(row, width) ==
    [c \in 1..width |-> IF c <= Len(row) THEN row[c] ELSE "NaN"]

read_csv(bytes) ==
    [columns |-> bytes[1],
     records |-> [i \in 1..(Len(bytes) - 1) |-> PadRow(bytes[i + 1], Len(bytes[1]))]]

LowerCase(s) == IF s = "Standard" THEN "standard" ELSE "detailed"

(* ---------------------- collaborators (interfaces) --------------------- *)

\* llm_agent.analyze either raises, returns a result carrying the error
\* key, or returns a result carrying insights.  The field "analysed"
\* records which table the result was computed from.
AnalyzeOutcomes == {"raise", "error", "insights"}

AnalyzeReturn(table, outcome) ==
    IF outcome = "raise"
    THEN None
    ELSE IF outcome = "error"
    THEN [error |-> "analysis failed", analysed |-> table]
    ELSE [insights |-> <<"finding">>, analysed |-> table]

\* report_agent.generate_report either returns the path of the document it
\* wrote or raises.
GenerateOutcomes == {"path", "raise"}

GenerateReturn(data_file, outcome) ==
    IF outcome = "raise"
    THEN None
    ELSE [dir |-> "reports", name |-> data_file.name]

\* The store is reachable, or fails on save_report, or on save_quick_summary.
DbOutcomes == {"ok", "fail_report", "fail_summary"}

\* Report Store: save assigns the identifier of the new record.
NextReportId(rs) == Len(rs) + 1

ReportIds(rs) == {rs[i].id : i \in 1..Len(rs)}

\* The effect of one call on the store; a call that raises leaves it as it was.
DbApply(st, call) ==
    IF call.op = "save_report"
    THEN [st EXCEPT !.reports = Append(@,
            [id |-> NextReportId(st.reports), filename |-> call.filename,
             report_path |-> call.report_path, report_type |-> call.report_type,
             analysis_results |-> call.analysis_results, metadata |-> call.metadata])]
    ELSE IF call.op = "save_quick_summary" /\ call.report_id \in ReportIds(st.reports)
    THEN [st EXCEPT !.summaries = Append(@,
            [report_id |-> call.report_id, summary_text |-> call.summary_text])]
    ELSE st

\* Does the call raise?  save_quick_summary of an unknown report does.
DbRaises(st, call, db_outcome) ==
    \/ call.op = "save_report" /\ db_outcome = "fail_report"
    \/ call.op = "save_quick_summary" /\ db_outcome = "fail_summary"
    \/ call.op = "save_quick_summary" /\ call.report_id \notin ReportIds(st.reports)

\* Run the calls in order until one raises: the store after, the calls made,
\* and whether the run ended in an exception.
RECURSIVE DbRun(_, _, _, _)
DbRun(st, calls, db_outcome, made) ==
    IF calls = << >>
    THEN [st |-> st, made |-> made, raised |-> FALSE]
    ELSE IF DbRaises(st, Head(calls), db_outcome)
    THEN [st |-> st, made |-> Append(made, [Head(calls) EXCEPT !.raised = TRUE]),
          raised |-> TRUE]
    ELSE DbRun(DbApply(st, Head(calls)), Tail(calls), db_outcome,
               Append(made, Head(calls)))

get_recent_reports(rs, limit) ==
    {rs[i].id : i \in {j \in 1..Len(rs) : j > Len(rs) - limit}}

search_reports(rs, query) ==
    {rs[i].id : i \in {j \in 1..Len(rs) : rs[j].filename = query}}

(* ------------------------------- Init ---------------------------------- *)

Init ==
    /\ current_file = None
    /\ analysis_results = None
    /\ df = None
    /\ selected_report = None      \* the key is absent until a report is viewed
    /\ uploads = [n \in FileNames |-> None]
    /\ reports = << >>
    /\ quick_summaries = << >>
    /\ page = "Upload & Analyze"
    /\ callLog = << >>
    /\ message = "none"

(* ----------------------- Upload & Analyze page ------------------------- *)

os_path_join(dir, name) == [dir |-> dir, name |-> name]

show_upload_and_analyze ==
    /\ page' = "Upload & Analyze"
    /\ UNCHANGED <<selected_report, reports, quick_summaries>>
    /\ \/ \* no file in the uploader
          /\ UNCHANGED <<current_file, analysis_results, df, uploads>>
          /\ callLog' = << >>
          /\ message' = "none"
       \/ \E uploaded_file \in UploadedFiles :
            LET file_path == os_path_join(save_dir, uploaded_file.name)
                written   == [op |-> "write", path |-> file_path,
                              bytes |-> uploaded_file.bytes]
                parsed    == [op |-> "read_csv", name |-> uploaded_file.name,
                              bytes |-> uploaded_file.bytes]
                table     == read_csv(uploaded_file.bytes)
            IN
            /\ uploads' = [uploads EXCEPT ![uploaded_file.name] = uploaded_file.bytes]
            /\ current_file' = file_path
            /\ IF ParseFails(uploaded_file.bytes)
               THEN /\ UNCHANGED <<df, analysis_results>>
                    /\ callLog' = <<written, parsed>>
                    /\ message' = "error"
               ELSE /\ df' = table
                    /\ \/ \* Run Analysis not pressed
                          /\ UNCHANGED analysis_results
                          /\ callLog' = <<written, parsed>>
                          /\ message' = "none"
                       \/ \E analysis_type \in AnalysisTypes, outcome \in AnalyzeOutcomes :
                            /\ callLog' = <<written, parsed,
                                            [op |-> "analyze", table |-> table,
                                             mode |-> analysis_type,
                                             returned |-> AnalyzeReturn(table, outcome)]>>
                            /\ IF outcome = "raise"
                               THEN /\ UNCHANGED analysis_results
                                    /\ message' = "error"
                               ELSE /\ analysis_results' = AnalyzeReturn(table, outcome)
                                    \* drawing the tabs may still raise
                                    /\ message' \in {"success", "error"}

(* ----------------------- Report Generation page ------------------------ *)

NoFileYet == current_file = None

\* The page without its second guard.
NoAnalysisYet_Unchecked == FALSE

NoAnalysisYet == analysis_results = None

show_report_generation ==
    /\ page' = "Report Generation"
    /\ UNCHANGED <<session, uploads, store>>
    /\ IF NoFileYet \/ NoAnalysisYet
       THEN /\ callLog' = << >>
            /\ message' = "warning"
       ELSE LET reread == [op |-> "read_csv", name |-> current_file.name,
                           bytes |-> uploads[current_file.name]]
            IN
            IF ParseFails(uploads[current_file.name])
            THEN /\ callLog' = <<reread>>
                 /\ message' = "exception"
            ELSE \/ \* Generate Report not pressed
                    /\ callLog' = <<reread>>
                    /\ message' = "none"
                 \/ \E report_format \in ReportFormats, outcome \in GenerateOutcomes :
                      /\ callLog' = <<reread,
                                      [op |-> "generate_report",
                                       data_file |-> current_file,
                                       analysis_results |-> analysis_results,
                                       report_type |-> LowerCase(report_format),
                                       returned |-> GenerateReturn(current_file, outcome)]>>
                      /\ message' = IF outcome = "path" THEN "success" ELSE "error"

(* -------------------------- Quick Summary page ------------------------- *)

\* The page saving whatever the engine returned.
SummaryIsSaved_Unchecked(results) == TRUE

SummaryIsSaved(results) == "error" \notin DOMAIN results

SummaryText(results) ==
    IF "insights" \in DOMAIN results THEN results.insights ELSE << >>

\* The page saving the summary before the record it belongs to.
QuickSummaryDbCalls_SummaryFirst(uploaded_file, table, results, report_id) ==
    << [op |-> "save_quick_summary", report_id |-> report_id,
        summary_text |-> SummaryText(results), raised |-> FALSE],
       [op |-> "save_report", filename |-> uploaded_file.name, report_path |-> "",
        report_type |-> "quick_summary", analysis_results |-> results,
        metadata |-> [rows |-> Len(table.records), columns |-> Len(table.columns),
                      file_type |-> uploaded_file.type],
        returned |-> report_id, raised |-> FALSE] >>

QuickSummaryDbCalls(uploaded_file, table, results, report_id) ==
    << [op |-> "save_report", filename |-> uploaded_file.name, report_path |-> "",
        report_type |-> "quick_summary", analysis_results |-> results,
        metadata |-> [rows |-> Len(table.records), columns |-> Len(table.columns),
                      file_type |-> uploaded_file.type],
        returned |-> report_id, raised |-> FALSE],
       [op |-> "save_quick_summary", report_id |-> report_id,
        summary_text |-> SummaryText(results), raised |-> FALSE] >>

show_quick_summary ==
    /\ Len(reports) < MaxReports
    /\ page' = "Quick Summary"
    /\ UNCHANGED <<session, uploads>>
    /\ \/ \* no file in the uploader
          /\ UNCHANGED store
          /\ callLog' = << >>
          /\ message' = "none"
       \/ \E uploaded_file \in UploadedFiles :
            LET parsed   == [op |-> "read_csv", name |-> uploaded_file.name,
                             bytes |-> uploaded_file.bytes]
                table    == read_csv(uploaded_file.bytes)
            IN
            IF ParseFails(uploaded_file.bytes)
            THEN /\ UNCHANGED store
                 /\ callLog' = <<parsed>>
                 /\ message' = "exception"
            ELSE \E outcome \in AnalyzeOutcomes :
                   LET results  == AnalyzeReturn(table, outcome)
                       analysed == [op |-> "analyze", table |-> table, mode |-> "basic",
                                    returned |-> results]
                   IN
                   IF outcome = "raise"
                   THEN /\ UNCHANGED store
                        /\ callLog' = <<parsed, analysed>>
                        /\ message' = "exception"
                   ELSE IF ~SummaryIsSaved(results)
                   THEN /\ UNCHANGED store
                        /\ callLog' = <<parsed, analysed>>
                        /\ message' = "error"
                   ELSE \E db_outcome \in DbOutcomes :
                          LET run == DbRun([reports |-> reports,
                                            summaries |-> quick_summaries],
                                           QuickSummaryDbCalls(uploaded_file, table,
                                               results, NextReportId(reports)),
                                           db_outcome, << >>)
                          IN
                          /\ reports' = run.st.reports
                          /\ quick_summaries' = run.st.summaries
                          /\ callLog' = <<parsed, analysed>> \o run.made
                          /\ message' = IF run.raised THEN "exception" ELSE "success"

(* -------------------------- Report History page ------------------------ *)

show_report_history ==
    \E search_query \in FileNames \cup {""} :
      LET listed == IF search_query # ""
                    THEN search_reports(reports, search_query)
                    ELSE get_recent_reports(reports, RecentLimit)
      IN
      /\ page' = "Report History"
      /\ UNCHANGED <<current_file, analysis_results, df, uploads, store>>
      /\ callLog' = << >>
      /\ message' = "none"
      /\ \/ UNCHANGED selected_report
         \/ \E view \in listed : selected_report' = [report_id |-> view]

(* ------------------------------- Next ---------------------------------- *)

Next ==
    \/ show_upload_and_analyze
    \/ show_report_generation
    \/ show_quick_summary
    \/ show_report_history

Spec == Init /\ [][Next]_vars

(* ------------------------------ properties ----------------------------- *)

\* Positions of the calls to one collaborator in a call log.
CallsTo(log, op) == {i \in 1..Len(log) : log[i].op = op}

CarriesError(results) == "error" \in DOMAIN results

SummariesOf(report_id) ==
    {k \in 1..Len(quick_summaries) : quick_summaries[k].report_id = report_id}

\* C1: a load on the Upload & Analyze page that fails to parse shows an error
\* message and leaves current_file, df and analysis_results as they were.
C1_FailedLoadLeavesSession ==
    [][ ( /\ page' = "Upload & Analyze"
          /\ \E i \in CallsTo(callLog', "read_csv") : ParseFails(callLog'[i].bytes) )
        => ( /\ message' = "error"
             /\ current_file' = current_file
             /\ df' = df
             /\ analysis_results' = analysis_results ) ]_vars

\* C2: in every reachable state analysis_results is None or a result without
\* the error key.
C2_NoErrorResultInSession ==
    analysis_results = None \/ ~CarriesError(analysis_results)

\* C3: generate_report is never called with an analysis_results argument
\* that carries the error key.
C3_NoErrorResultToAssembler ==
    \A i \in CallsTo(callLog, "generate_report") :
        ~CarriesError(callLog[i].analysis_results)

\* C4: a generate_report call that returns a path is followed, in the same
\* run, by a save_report call that persists a record for that path.
C4_GeneratedReportIsSaved ==
    \A i \in CallsTo(callLog, "generate_report") :
        callLog[i].returned # None =>
            \E j \in CallsTo(callLog, "save_report") :
                /\ j > i
                /\ ~callLog[j].raised
                /\ callLog[j].report_path = callLog[i].returned

\* C5: every save_quick_summary call passes the identifier returned by a
\* save_report call that completed earlier in the same run, and every Report
\* Record has at most one Quick Summary.
C5_SummaryFollowsItsReport ==
    /\ \A i \in CallsTo(callLog, "save_quick_summary") :
          \E j \in CallsTo(callLog, "save_report") :
              /\ j < i
              /\ ~callLog[j].raised
              /\ callLog[j].returned = callLog[i].report_id
              /\ callLog[i].report_id \in ReportIds(reports)
    /\ \A k \in 1..Len(quick_summaries) :
          quick_summaries[k].report_id \in ReportIds(reports)
    /\ \A r \in ReportIds(reports) : Cardinality(SummariesOf(r)) <= 1

\* C5 witness: two records were created, each with its summary, the second
\* in the run that just ended.
C5_Witness ==
    /\ \E i \in CallsTo(callLog, "save_quick_summary") : ~callLog[i].raised
    /\ Len(reports) >= 2
    /\ \A r \in ReportIds(reports) : Cardinality(SummariesOf(r)) = 1

\* C6: on the Quick Summary page, when analyze returns a result carrying the
\* error key, neither save_report nor save_quick_summary is called and the
\* Report Store is unchanged.
C6_ErrorResultIsNotSaved ==
    [][ ( /\ page' = "Quick Summary"
          /\ \E i \in CallsTo(callLog', "analyze") : CarriesError(callLog'[i].returned) )
        => ( /\ CallsTo(callLog', "save_report") = {}
             /\ CallsTo(callLog', "save_quick_summary") = {}
             /\ reports' = reports
             /\ quick_summaries' = quick_summaries
             /\ message' = "error" ) ]_vars

\* C6 witness: a Quick Summary run whose analysis returned an error result,
\* with a record already in the store.
C6_Witness ==
    /\ page = "Quick Summary"
    /\ \E i \in CallsTo(callLog, "analyze") : CarriesError(callLog[i].returned)
    /\ Len(reports) >= 1

\* C7: every call to analyze passes a mode that is exactly "basic" or
\* "detailed".
C7_ModeIsBasicOrDetailed ==
    \A i \in CallsTo(callLog, "analyze") : callLog[i].mode \in {"basic", "detailed"}

\* C8: on the Upload & Analyze and Quick Summary pages, every parse of an
\* upload comes after a write of the same bytes to the upload area under the
\* upload's name.
C8_PersistedBeforeParsed ==
    page \in {"Upload & Analyze", "Quick Summary"} =>
        \A i \in CallsTo(callLog, "read_csv") :
            \E j \in CallsTo(callLog, "write") :
                /\ j < i
                /\ callLog[j].path = os_path_join(save_dir, callLog[i].name)
                /\ callLog[j].bytes = callLog[i].bytes

\* C9: generate_report is called only from a state where current_file and
\* analysis_results are both set; when either is None the Report Generation
\* page warns and returns, making no call and leaving the session as it was.
C9_ReportGenerationIsGuarded ==
    [][ /\ \A i \in CallsTo(callLog', "generate_report") :
              /\ current_file # None
              /\ analysis_results # None
              /\ callLog'[i].data_file = current_file
              /\ callLog'[i].analysis_results = analysis_results
        /\ ( page' = "Report Generation" /\ (current_file = None \/ analysis_results = None) )
             => ( /\ callLog' = << >>
                  /\ message' = "warning"
                  /\ UNCHANGED session ) ]_vars

\* C9 witness: the Report Generation page refused to run because a file was
\* uploaded but never analysed.
C9_Witness ==
    /\ page = "Report Generation"
    /\ message = "warning"
    /\ current_file # None
    /\ analysis_results = None

\* C10: df is the table parsed from the file at current_file,
\* analysis_results was computed from that table, and generate_report is
\* called with a file and a result of the same upload.
C10_SessionIsConsistent ==
    /\ df # None =>
          /\ current_file # None
          /\ ~ParseFails(uploads[current_file.name])
          /\ df = read_csv(uploads[current_file.name])
    /\ analysis_results # None =>
          /\ df # None
          /\ analysis_results.analysed = df
    /\ \A i \in CallsTo(callLog, "generate_report") :
          callLog[i].analysis_results.analysed
              = read_csv(uploads[callLog[i].data_file.name])

====
